---- MODULE Spec2Model ----
(***************************************************************************)
(* Language analysis passes of src/rs/src/lang.rs: rename, lift, inline,   *)
(* anf and tco, and the driver analyze that chains them.                   *)
(*                                                                         *)
(* An Expr<T> is a record with a tag field:                                *)
(*   Identifier(name)            Let{bindings, body}     List(list)        *)
(*   Cond{pred, then, alt}       Lambda(code)            Define{name, val} *)
(*   Vector(list)                Literal(lit)                              *)
(* bindings is a sequence of pairs <<name, value>>; an Option is a         *)
(* sequence of length 0 or 1; a Literal is a pair <<kind, text>>.          *)
(* Syntax = Expr<String> has strings for names, Core = Expr<Ident> has     *)
(* Idents, an Ident being the sequence of its path segments.               *)
(***************************************************************************)
EXTENDS Integers, Sequences, FiniteSets, TLC

VARIABLES
    pc,        \* the pass that runs next: rename, lift, inline, anf, tco, done
    prog,      \* the Syntax forms given to analyze
    env,       \* rename's environment argument
    base,      \* rename's base path argument
    index,     \* rename's index argument
    renamed,   \* the Core forms rename returned
    lifted,    \* the items lift returned, flattened
    s,         \* the State: the registries strings and symbols
    inlined,   \* the items inline has returned so far
    normal,    \* the items anf returned
    out        \* the items tco returned, the result of analyze

vars == <<pc, prog, env, base, index, renamed, lifted, s, inlined, normal, out>>

(***************************************************************************)
(* Expr constructors                                                       *)
(***************************************************************************)
Identifier(name) == [tag |-> "Identifier", name |-> name]

Let(bindings, body) == [tag |-> "Let", bindings |-> bindings, body |-> body]

List(list) == [tag |-> "List", list |-> list]

Cond(pred, then, alt) == [tag |-> "Cond", pred |-> pred, then |-> then, alt |-> alt]

Closure(formals, free, body, tailflag) ==
    [formals |-> formals, free |-> free, body |-> body, tail |-> tailflag]

Lambda(code) == [tag |-> "Lambda", code |-> code]

Define(name, val) == [tag |-> "Define", name |-> name, val |-> val]

Vector(list) == [tag |-> "Vector", list |-> list]

Literal(lit) == [tag |-> "Literal", lit |-> lit]

Nil == <<"Nil", "()">>

Number(n) == <<"Number", n>>

Str(t) == <<"Str", t>>

Symbol(t) == <<"Symbol", t>>

None == <<>>

Some(e) == <<e>>

(***************************************************************************)
(* Ident: a path of segments                                               *)
(***************************************************************************)
IdentEmpty == <<>>

IdentNew(name) == <<name>>

extend(ident, segment) == Append(ident, segment)

IdentExpr(name) == Identifier(IdentNew(name))

(***************************************************************************)
(* HashMap<&str, Ident> as a function on its key set                       *)
(***************************************************************************)
EmptyMap == [n \in {} |-> <<>>]

insert(m, k, v) == [n \in (DOMAIN m) \cup {k} |-> IF n = k THEN v ELSE m[n]]

\* for (name, _) in bindings { if keep(name) { m.insert(name, base.extend(name)) } }
RECURSIVE insert_names(_, _, _)
insert_names(m, names, b) ==
    IF names = <<>> THEN m
    ELSE insert_names(insert(m, Head(names), extend(b, Head(names))), Tail(names), b)

BindingNames(bindings) == [i \in 1..Len(bindings) |-> bindings[i][1]]

let_segment(i) == "{let " \o ToString(i) \o "}"

AllEnv(e, b, bindings) == insert_names(e, BindingNames(bindings), b)

\* Mutant: the binding's own name is not left out
RestEnvWithSelf(e, b, bindings, current) == AllEnv(e, b, bindings)

\* Mutant: the sibling bindings are not visible at all
RestEnvNoSiblings(e, b, bindings, current) == e

RestEnv(e, b, bindings, current) ==
    insert_names(e, SelectSeq(BindingNames(bindings), LAMBDA n : n # current), b)

(***************************************************************************)
(* rename                                                                  *)
(***************************************************************************)
\* index is a u8 and index + 1 overflows at 255 nested Lets; the nesting
\* depths modelled stay far below that.
RECURSIVE rename(_, _, _, _)
rename(e, b, i, p) ==
    CASE p.tag = "Identifier" ->
            IF p.name \in DOMAIN e THEN Identifier(e[p.name]) ELSE IdentExpr(p.name)
      [] p.tag = "Let" ->
            LET nb == extend(b, let_segment(i))
                all == AllEnv(e, nb, p.bindings)
                one(current, value) ==
                    LET rest == RestEnv(e, nb, p.bindings, current)
                        v == CASE value.tag = "Let" -> rename(all, nb, i + 1, value)
                               [] value.tag = "Lambda" ->
                                    rename(all, extend(nb, current), i + 1, value)
                               [] OTHER -> rename(rest, nb, i + 1, value)
                    IN  <<all[current], v>>
            IN  Let([k \in 1..Len(p.bindings) |-> one(p.bindings[k][1], p.bindings[k][2])],
                    [k \in 1..Len(p.body) |-> rename(all, nb, i + 1, p.body[k])])
      [] p.tag = "List" ->
            List([k \in 1..Len(p.list) |-> rename(e, b, i, p.list[k])])
      [] p.tag = "Cond" ->
            Cond(rename(e, b, i, p.pred), rename(e, b, i, p.then),
                 [k \in 1..Len(p.alt) |-> rename(e, b, i, p.alt[k])])
      [] p.tag = "Lambda" ->
            LET c == p.code
                inner == insert_names(e, c.formals, b)
            IN  Lambda(Closure([k \in 1..Len(c.formals) |-> extend(b, c.formals[k])],
                               [k \in 1..Len(c.free) |-> extend(b, c.free[k])],
                               [k \in 1..Len(c.body) |-> rename(inner, b, 0, c.body[k])],
                               c.tail))
      [] p.tag = "Define" ->
            Define(extend(b, p.name), rename(e, extend(b, p.name), 0, p.val))
      [] p.tag = "Vector" ->
            Vector([k \in 1..Len(p.list) |-> rename(e, b, i, p.list[k])])
      [] p.tag = "Literal" -> p

(***************************************************************************)
(* lift and shrink                                                         *)
(***************************************************************************)
shrink(es) ==
    CASE Len(es) = 0 -> Literal(Nil)
      [] Len(es) = 1 -> es[1]
      [] OTHER -> List(es)

\* Mutant: the residual Let is put before the lifted definitions
push_front(export, residual) == <<residual>> \o export

\* export.push(Let { .. })
push(export, residual) == Append(export, residual)

RECURSIVE lift(_)
RECURSIVE flat_map_lift(_)
lift(p) ==
    CASE p.tag = "Let" ->
            LET kept == SelectSeq(p.bindings, LAMBDA bd : bd[2].tag # "Lambda")
                funs == SelectSeq(p.bindings, LAMBDA bd : bd[2].tag = "Lambda")
                rest == [k \in 1..Len(kept) |-> <<kept[k][1], shrink(lift(kept[k][2]))>>]
                export == [k \in 1..Len(funs) |->
                             Define(funs[k][1],
                                    Lambda([funs[k][2].code EXCEPT
                                              !.body = flat_map_lift(funs[k][2].code.body)]))]
            IN  push(export,
                     Let(rest, [k \in 1..Len(p.body) |-> shrink(lift(p.body[k]))]))
      [] p.tag = "List" ->
            <<List([k \in 1..Len(p.list) |-> shrink(lift(p.list[k]))])>>
      [] p.tag = "Cond" ->
            <<Cond(shrink(lift(p.pred)), shrink(lift(p.then)),
                   [k \in 1..Len(p.alt) |-> shrink(lift(p.alt[k]))])>>
      [] p.tag = "Define" /\ p.val.tag = "Lambda" ->
            <<Define(p.name,
                     Lambda([p.val.code EXCEPT !.body = flat_map_lift(p.val.code.body)]))>>
      [] OTHER -> <<p>>

flat_map_lift(es) ==
    IF es = <<>> THEN <<>> ELSE lift(Head(es)) \o flat_map_lift(Tail(es))

(***************************************************************************)
(* inline: the State holds the two registries strings and symbols          *)
(***************************************************************************)
StateNew == [strings |-> EmptyMap, symbols |-> EmptyMap]

\* Mutant: m.insert(reference, index), which overwrites a registered value
or_insert_overwrite(m, reference) == insert(m, reference, Cardinality(DOMAIN m))

\* let index = m.len(); m.entry(reference).or_insert(index);
or_insert(m, reference) ==
    IF reference \in DOMAIN m THEN m ELSE insert(m, reference, Cardinality(DOMAIN m))

\* inline and inline_seq return <<state after the call, returned tree(s)>>
RECURSIVE inline(_, _)
RECURSIVE inline_seq(_, _)
inline(st, p) ==
    CASE p.tag = "Literal" ->
            CASE p.lit[1] = "Str" ->
                    <<[st EXCEPT !.strings = or_insert(st.strings, p.lit[2])], p>>
              [] p.lit[1] = "Symbol" ->
                    <<[st EXCEPT !.symbols = or_insert(st.symbols, p.lit[2])], p>>
              [] OTHER -> <<st, p>>
      [] p.tag = "Let" ->
            LET vals == inline_seq(st, [k \in 1..Len(p.bindings) |-> p.bindings[k][2]])
                body == inline_seq(vals[1], p.body)
            IN  <<body[1],
                  Let([k \in 1..Len(p.bindings) |-> <<p.bindings[k][1], vals[2][k]>>],
                      body[2])>>
      [] p.tag = "List" ->
            LET r == inline_seq(st, p.list) IN <<r[1], List(r[2])>>
      [] p.tag = "Vector" ->
            LET r == inline_seq(st, p.list) IN <<r[1], Vector(r[2])>>
      [] p.tag = "Cond" ->
            LET r == inline_seq(st, <<p.pred, p.then>> \o p.alt)
            IN  <<r[1], Cond(r[2][1], r[2][2], SubSeq(r[2], 3, Len(r[2])))>>
      [] p.tag = "Define" /\ p.val.tag = "Lambda" ->
            LET r == inline_seq(st, p.val.code.body)
            IN  <<r[1], Define(p.name, Lambda([p.val.code EXCEPT !.body = r[2]]))>>
      [] OTHER -> <<st, p>>

inline_seq(st, es) ==
    IF es = <<>> THEN <<st, <<>>>>
    ELSE LET h == inline(st, Head(es))
             t == inline_seq(h[1], Tail(es))
         IN  <<t[1], <<h[2]>> \o t[2]>>

(***************************************************************************)
(* anf                                                                     *)
(***************************************************************************)
\* Expr::anf(), the test for an argument that needs no binding
IsAnf(e) == e.tag \in {"Literal", "Identifier", "Lambda"}

\* Mutant: the arguments are counted with the head, from 1
anf_name_from_one(i) == IdentNew("_" \o ToString(i + 1))

anf_name(i) == IdentNew("_" \o ToString(i))

\* list.split_at(1) panics on an empty list
Panic == [tag |-> "Panic"]

anf(p) ==
    IF p.tag = "List" THEN
        IF p.list = <<>> THEN Panic
        ELSE
            LET car == SubSeq(p.list, 1, 1)
                cdr == SubSeq(p.list, 2, Len(p.list))
                compound == SelectSeq([k \in 1..Len(cdr) |-> k], LAMBDA k : ~IsAnf(cdr[k]))
                bindings == [j \in 1..Len(compound) |->
                               <<anf_name(compound[j] - 1), cdr[compound[j]]>>]
                args == [k \in 1..Len(cdr) |->
                           IF IsAnf(cdr[k]) THEN cdr[k] ELSE Identifier(anf_name(k - 1))]
            IN  IF \A k \in 1..Len(cdr) : IsAnf(cdr[k])
                THEN p
                ELSE Let(bindings, <<List(car \o args)>>)
    ELSE p

(***************************************************************************)
(* tco                                                                     *)
(***************************************************************************)
RECURSIVE tail(_)
tail(e) ==
    CASE e.tag = "Let" -> IF e.body = <<>> THEN None ELSE tail(e.body[Len(e.body)])
      [] e.tag = "Cond" -> IF e.alt = None THEN None ELSE tail(e.alt[1])
      [] OTHER -> Some(e)

\* Mutant: the last body expression itself is taken for the tail position
is_tail_of_last(name, code) ==
    /\ code.body # <<>>
    /\ code.body[Len(code.body)].tag = "List"
    /\ code.body[Len(code.body)].list # <<>>
    /\ code.body[Len(code.body)].list[1] = Identifier(name)

is_tail(name, code) ==
    LET last == IF code.body = <<>> THEN None ELSE tail(code.body[Len(code.body)])
    IN  /\ last # None
        /\ last[1].tag = "List"
        /\ last[1].list # <<>>
        /\ last[1].list[1].tag = "Identifier"
        /\ last[1].list[1].name = name

tco(expr) ==
    CASE expr.tag = "Define" /\ expr.val.tag = "Lambda" ->
            Define(expr.name,
                   Lambda([expr.val.code EXCEPT !.tail = is_tail(expr.name, expr.val.code)]))
      [] expr.tag = "Let" ->
            Let([k \in 1..Len(expr.bindings) |->
                   IF expr.bindings[k][2].tag = "Lambda"
                   THEN <<expr.bindings[k][1],
                          Lambda([expr.bindings[k][2].code EXCEPT
                                    !.tail = is_tail(expr.bindings[k][1],
                                                     expr.bindings[k][2].code)])>>
                   ELSE expr.bindings[k]],
                expr.body)
      [] OTHER -> expr

(***************************************************************************)
(* analyze: rename each form, flat_map lift, then inline, anf and tco each *)
(* item.  inline is the only pass with an effect, so it is taken one item  *)
(* at a time, in the order of the items.                                   *)
(***************************************************************************)
Rename ==
    /\ pc = "rename"
    /\ renamed' = [k \in 1..Len(prog) |-> rename(env, base, index, prog[k])]
    /\ pc' = "lift"
    /\ UNCHANGED <<prog, env, base, index, lifted, s, inlined, normal, out>>

Lift ==
    /\ pc = "lift"
    /\ lifted' = flat_map_lift(renamed)
    /\ pc' = IF lifted' = <<>> THEN "anf" ELSE "inline"
    /\ UNCHANGED <<prog, env, base, index, renamed, s, inlined, normal, out>>

Inline ==
    /\ pc = "inline"
    /\ Len(inlined) < Len(lifted)
    /\ LET r == inline(s, lifted[Len(inlined) + 1])
       IN  /\ s' = r[1]
           /\ inlined' = Append(inlined, r[2])
    /\ pc' = IF Len(inlined') = Len(lifted) THEN "anf" ELSE "inline"
    /\ UNCHANGED <<prog, env, base, index, renamed, lifted, normal, out>>

Anf ==
    /\ pc = "anf"
    /\ normal' = [k \in 1..Len(inlined) |-> anf(inlined[k])]
    /\ pc' = IF \E k \in 1..Len(inlined) : anf(inlined[k]) = Panic THEN "panic" ELSE "tco"
    /\ UNCHANGED <<prog, env, base, index, renamed, lifted, s, inlined, out>>

Tco ==
    /\ pc = "tco"
    /\ out' = [k \in 1..Len(normal) |-> tco(normal[k])]
    /\ pc' = "done"
    /\ UNCHANGED <<prog, env, base, index, renamed, lifted, s, inlined, normal>>

(***************************************************************************)
(* Input programs: every tree of nesting depth at most MaxDepth built from *)
(* the atoms by the one-hole contexts of Wrap, and pairs of shallow forms. *)
(***************************************************************************)
MaxDepth == 3

PairDepth == 1

Atoms ==
    { Identifier("x"), Identifier("f"), Literal(Number("1")), Literal(Str("hi")),
      Literal(Symbol("a")) }

Sibling == Let(<< <<"x", Literal(Number("1"))>> >>, <<Identifier("x")>>)

Wrap(t) ==
    { Let(<< <<"x", t>> >>, <<Identifier("x")>>),
      Let(<< <<"f", t>> >>, <<List(<<Identifier("f"), Literal(Number("1"))>>)>>),
      Let(<<>>, <<t>>),
      Let(<<>>, <<t, Sibling>>),
      List(<<Identifier("f"), t>>),
      Cond(Identifier("x"), Literal(Number("1")), Some(t)),
      Lambda(Closure(<<"x">>, <<>>, <<t>>, FALSE)),
      Define("f", t),
      Vector(<<t>>) }

RECURSIVE SynTrees(_)
SynTrees(d) ==
    IF d = 0 THEN Atoms
    ELSE LET below == SynTrees(d - 1)
         IN  below \cup UNION { Wrap(t) : t \in below }

\* The forms a source text gives: a Lambda is the value of a Let binding or
\* of a Define, a Define is a top-level form or a form of a body, and no
\* body defines one name twice.
RECURSIVE ExprOK(_)
RECURSIVE BodyOK(_)
ValOK(v) == IF v.tag = "Lambda" THEN BodyOK(v.code.body) ELSE ExprOK(v)

ExprOK(e) ==
    CASE e.tag \in {"Define", "Lambda"} -> FALSE
      [] e.tag = "Let" ->
            /\ \A k \in 1..Len(e.bindings) : ValOK(e.bindings[k][2])
            /\ BodyOK(e.body)
      [] e.tag \in {"List", "Vector"} -> \A k \in 1..Len(e.list) : ExprOK(e.list[k])
      [] e.tag = "Cond" ->
            ExprOK(e.pred) /\ ExprOK(e.then) /\ \A k \in 1..Len(e.alt) : ExprOK(e.alt[k])
      [] OTHER -> TRUE

BodyOK(es) ==
    /\ \A k \in 1..Len(es) : IF es[k].tag = "Define" THEN ValOK(es[k].val) ELSE ExprOK(es[k])
    /\ \A i, j \in 1..Len(es) :
          (es[i].tag = "Define" /\ es[j].tag = "Define" /\ es[i].name = es[j].name) => i = j

ProgramsOf(depth, pairDepth) ==
    { p \in { <<t>> : t \in SynTrees(depth) }
              \cup { <<t, u>> : t \in SynTrees(pairDepth), u \in SynTrees(pairDepth) } :
        BodyOK(p) }

Blank ==
    /\ renamed = <<>>
    /\ lifted = <<>>
    /\ s = StateNew
    /\ inlined = <<>>
    /\ normal = <<>>
    /\ out = <<>>

Init ==
    /\ pc = "rename"
    /\ prog \in ProgramsOf(MaxDepth, PairDepth)
    /\ env = EmptyMap
    /\ base = IdentEmpty
    /\ index = 0
    /\ Blank

Next == Rename \/ Lift \/ Inline \/ Anf \/ Tco

Spec == Init /\ [][Next]_vars

(***************************************************************************)
(* Tree walks used to state the properties                                 *)
(***************************************************************************)
Children(e) ==
    CASE e.tag = "Let" -> [k \in 1..Len(e.bindings) |-> e.bindings[k][2]] \o e.body
      [] e.tag \in {"List", "Vector"} -> e.list
      [] e.tag = "Cond" -> <<e.pred, e.then>> \o e.alt
      [] e.tag = "Lambda" -> e.code.body
      [] e.tag = "Define" -> <<e.val>>
      [] OTHER -> <<>>

Range(f) == { f[k] : k \in DOMAIN f }

NoDup(f) == \A i, j \in DOMAIN f : f[i] = f[j] => i = j

RECURSIVE Concat(_)
Concat(ss) == IF ss = <<>> THEN <<>> ELSE Head(ss) \o Concat(Tail(ss))

\* The Idents of the binding sites of a Core tree, one entry per site
RECURSIVE BindingSites(_)
BindingSites(e) ==
    LET own == CASE e.tag = "Let" -> BindingNames(e.bindings)
                 [] e.tag = "Lambda" -> e.code.formals
                 [] e.tag = "Define" -> <<e.name>>
                 [] OTHER -> <<>>
        kids == Children(e)
    IN  own \o Concat([k \in 1..Len(kids) |-> BindingSites(kids[k])])

RECURSIVE LambdaFree(_)
LambdaFree(e) ==
    /\ e.tag # "Lambda"
    /\ \A k \in 1..Len(Children(e)) : LambdaFree(Children(e)[k])

Atomic(e) == e.tag \in {"Literal", "Identifier", "Lambda"}

RECURSIVE ListsAtomic(_)
ListsAtomic(e) ==
    /\ e.tag = "List" => \A k \in 2..Len(e.list) : Atomic(e.list[k])
    /\ \A k \in 1..Len(Children(e)) : ListsAtomic(Children(e)[k])

\* Every occurrence of the raw name n in the source tree syn that no inner
\* binding of n encloses is the Identifier target in its renamed tree core
RECURSIVE RefsTo(_, _, _, _)
RefsTo(n, target, syn, core) ==
    CASE syn.tag = "Identifier" -> syn.name = n => core = Identifier(target)
      [] syn.tag = "Let" /\ n \in Range(BindingNames(syn.bindings)) -> TRUE
      [] syn.tag = "Lambda" /\ n \in Range(syn.code.formals) -> TRUE
      [] syn.tag = "Define" /\ syn.name = n -> TRUE
      [] OTHER -> \A k \in 1..Len(Children(syn)) :
                      RefsTo(n, target, Children(syn)[k], Children(core)[k])

\* Every Define of syn resolves the references to its own name in its value
\* to the Ident its renamed Define carries
RECURSIVE DefinesResolve(_, _)
DefinesResolve(syn, core) ==
    /\ syn.tag = "Define" => RefsTo(syn.name, core.name, syn.val, core.val)
    /\ \A k \in 1..Len(Children(syn)) :
          DefinesResolve(Children(syn)[k], Children(core)[k])

(***************************************************************************)
(* Properties of analyze                                                   *)
(***************************************************************************)
\* C1: after rename of every top-level form with the empty environment, the
\* empty base and index 0, no two distinct binding sites (Let binding names,
\* Lambda formals, Define names) of the renamed program carry equal Idents.
C1_UniqueBindingSites ==
    pc # "rename" =>
        NoDup(Concat([k \in 1..Len(renamed) |-> BindingSites(renamed[k])]))

\* C2: in the items lift produces, a Lambda occurs only as the direct val of
\* a Define that is itself an item; no Lambda occurs inside a closure body,
\* a Let, a List, a Cond, a Vector or the value of a non-lambda Define.
C2_LambdasAtTopLevel ==
    pc \notin {"rename", "lift"} =>
        \A k \in 1..Len(lifted) :
            IF lifted[k].tag = "Define" /\ lifted[k].val.tag = "Lambda"
            THEN \A j \in 1..Len(lifted[k].val.code.body) :
                    LambdaFree(lifted[k].val.code.body[j])
            ELSE LambdaFree(lifted[k])

\* C3: every List node anywhere in a result of anf has only atomic elements
\* (Literal, Identifier, Lambda) after its head.
C3_AllListsAtomic ==
    pc \in {"tco", "done"} => \A k \in 1..Len(normal) : ListsAtomic(normal[k])

\* C10: rename of Define{name, val} renames every occurrence of name in val
\* that no inner binding shadows to the Ident given to the Define itself,
\* under any base path (a Define inside a Let body or a closure body too).
C10_DefineSelfReference ==
    pc # "rename" => \A k \in 1..Len(prog) : DefinesResolve(prog[k], renamed[k])

(***************************************************************************)
(* rename of one Let, called as rename calls itself: under the environment,*)
(* base path and index of an enclosing closure body or of Depth enclosing  *)
(* Lets.                                                                   *)
(***************************************************************************)
MaxNest == 1

MaxBindings == 2

RECURSIVE LetPath(_)
LetPath(d) == IF d = 0 THEN IdentEmpty ELSE extend(LetPath(d - 1), let_segment(d - 1))

Bound(names, b) == [n \in names |-> extend(b, n)]

RenameCallsOf(nest) ==
    { [env |-> Bound(names, LetPath(d)), base |-> LetPath(d), index |-> d] :
        names \in {{}, {"x"}, {"x", "y"}}, d \in 0..nest }
        \cup { [env |-> Bound({"y"}, IdentNew("g")), base |-> IdentNew("g"), index |-> 0] }

LetValues ==
    { Identifier("x"), Identifier("y"), Literal(Number("1")),
      List(<<Identifier("x"), Identifier("y")>>),
      Lambda(Closure(<<"z">>, <<>>,
                     <<List(<<Identifier("x"), Identifier("y"), Identifier("z")>>)>>, FALSE)),
      Let(<< <<"z", Identifier("x")>> >>, <<Identifier("y")>>) }

LetBodies == { <<>>, <<List(<<Identifier("x"), Identifier("y")>>)>> }

RECURSIVE SeqsUpTo(_, _)
SeqsUpTo(S, n) ==
    IF n = 0 THEN {<<>>}
    ELSE LET shorter == SeqsUpTo(S, n - 1)
         IN  shorter \cup { Append(q, x) : q \in shorter, x \in S }

LetInputsOf(n) ==
    { Let(bs, body) : bs \in SeqsUpTo({"x", "y"} \X LetValues, n),
                      body \in LetBodies }

InitRename ==
    /\ pc = "rename"
    /\ \E p \in LetInputsOf(MaxBindings) : prog = <<p>>
    /\ \E c \in RenameCallsOf(MaxNest) : env = c.env /\ base = c.base /\ index = c.index
    /\ Blank

SpecRename == InitRename /\ [][Rename]_vars

\* What a raw name denotes in the enclosing environment of the call
Enclosing(n) == IF n \in DOMAIN env THEN env[n] ELSE IdentNew(n)

NewBase == Append(base, "{let " \o ToString(index) \o "}")

\* The enclosing environment extended by name -> B'/name for every binding
\* name of the Let except the names in hidden
Scope(p, hidden) ==
    LET names == Range(BindingNames(p.bindings)) \ hidden
    IN  [n \in (DOMAIN env) \cup names |-> IF n \in names THEN Append(NewBase, n) ELSE env[n]]

\* C7: in a Let renamed under base B and index i, a Lambda or Let value is
\* renamed with every binding of the Let visible, itself included; any other
\* value with every binding visible except the names equal to its own; the
\* body with all bindings visible; every binding name becomes B/{let i}/name.
C7_LetEnvironments ==
    (pc = "lift" /\ prog[1].tag = "Let") =>
        LET p == prog[1]
            r == renamed[1]
        IN  /\ r.tag = "Let"
            /\ Len(r.bindings) = Len(p.bindings)
            /\ \A k \in 1..Len(p.bindings) :
                  LET cur == p.bindings[k][1]
                      val == p.bindings[k][2]
                  IN  /\ r.bindings[k][1] = Append(NewBase, cur)
                      /\ r.bindings[k][2] =
                            CASE val.tag = "Lambda" ->
                                    rename(Scope(p, {}), Append(NewBase, cur), index + 1, val)
                              [] val.tag = "Let" ->
                                    rename(Scope(p, {}), NewBase, index + 1, val)
                              [] OTHER ->
                                    rename(Scope(p, {cur}), NewBase, index + 1, val)
            /\ r.body = [k \in 1..Len(p.body) |->
                           rename(Scope(p, {}), NewBase, index + 1, p.body[k])]

\* A lambda x that calls x, y and its formal z, bound beside a plain y -> y
\* under an environment that has y
C7_Witness ==
    /\ pc = "lift"
    /\ "y" \in DOMAIN env
    /\ Len(prog[1].bindings) = 2
    /\ prog[1].bindings[1][1] = "x" /\ prog[1].bindings[1][2].tag = "Lambda"
    /\ prog[1].bindings[2] = <<"y", Identifier("y")>>
    /\ renamed[1].bindings[1][2].code.body =
          <<List(<<Identifier(Append(NewBase, "x")), Identifier(Append(NewBase, "y")),
                   Identifier(NewBase \o <<"x", "z">>)>>)>>
    /\ renamed[1].bindings[2] = <<Append(NewBase, "y"), Identifier(env["y"])>>
    /\ renamed[1].body =
          <<List(<<Identifier(Append(NewBase, "x")), Identifier(Append(NewBase, "y"))>>)>>

\* C6 as claimed: in a Let with bindings (x 1) and (y x) the x in y's value is
\* not renamed to the Ident this Let gives the sibling x, but to what x
\* denotes in the enclosing environment, or to the raw name x.
C6_SiblingNotVisible ==
    (pc = "lift" /\ prog[1].tag = "Let") =>
        \A j, k \in 1..Len(prog[1].bindings) :
            ( /\ prog[1].bindings[k] = <<"x", Literal(Number("1"))>>
              /\ prog[1].bindings[j] = <<"y", Identifier("x")>> ) =>
                /\ renamed[1].bindings[j][2] # Identifier(renamed[1].bindings[k][1])
                /\ renamed[1].bindings[j][2] = Identifier(Enclosing("x"))

\* C6 amended: the x in y's value is renamed to the Ident B/{let i}/x that
\* this Let gives the sibling binding x, whatever x denotes outside.
C6_SiblingVisible ==
    (pc = "lift" /\ prog[1].tag = "Let") =>
        \A j, k \in 1..Len(prog[1].bindings) :
            ( /\ prog[1].bindings[k][1] = "x"
              /\ prog[1].bindings[j] = <<"y", Identifier("x")>> ) =>
                /\ renamed[1].bindings[k][1] = Append(NewBase, "x")
                /\ renamed[1].bindings[j][2] = Identifier(Append(NewBase, "x"))

C6_Witness ==
    /\ pc = "lift"
    /\ prog[1].bindings = << <<"x", Literal(Number("1"))>>, <<"y", Identifier("x")>> >>
    /\ "x" \in DOMAIN env
    /\ renamed[1].bindings[2][2] = Identifier(Append(NewBase, "x"))
    /\ renamed[1].bindings[2][2] # Identifier(env["x"])

(***************************************************************************)
(* lift of one Let, as analyze reaches it: a top-level Let whose bindings  *)
(* mix lambdas and other values.                                           *)
(***************************************************************************)
InnerFun ==
    Let(<< <<"h", Lambda(Closure(<<"x">>, <<>>, <<Identifier("x")>>, FALSE))>> >>,
        <<List(<<Identifier("h"), Literal(Number("1"))>>)>>)

LiftValues ==
    { Lambda(Closure(<<"x">>, <<>>, <<Identifier("x")>>, FALSE)),
      Lambda(Closure(<<"x">>, <<>>, <<InnerFun>>, FALSE)),
      Literal(Number("1")),
      List(<<Identifier("f"), Identifier("g")>>),
      InnerFun }

LiftBodies ==
    { <<>>, <<List(<<Identifier("f"), Literal(Number("42"))>>)>>,
      <<InnerFun, Identifier("g")>> }

LiftProgramsOf(n) ==
    { <<Let(bs, body)>> : bs \in SeqsUpTo({"f", "g"} \X LiftValues, n),
                          body \in LiftBodies }

InitLift ==
    /\ pc = "rename"
    /\ prog \in LiftProgramsOf(MaxBindings)
    /\ env = EmptyMap
    /\ base = IdentEmpty
    /\ index = 0
    /\ Blank

SpecLift == InitLift /\ [][Rename \/ Lift]_vars

\* The indices of the bindings whose value is (is not) a Lambda
Funs(p) == { k \in 1..Len(p.bindings) : p.bindings[k][2].tag = "Lambda" }

Rank(k, S) == Cardinality({ i \in S : i <= k })

\* C8: lift of a Let with n bindings, k of them lambdas, returns k+1 items:
\* the k lambda bindings as Define{name, Lambda} in binding order under their
\* binding Idents, then one residual Let with the n-k other bindings in
\* order and as many body expressions as the input.
C8_LiftLet ==
    (pc = "inline" /\ renamed[1].tag = "Let") =>
        LET p == renamed[1]
            funs == Funs(p)
            others == (1..Len(p.bindings)) \ funs
            k == Cardinality(funs)
            residual == lifted[k + 1]
        IN  /\ Len(lifted) = k + 1
            /\ \A i \in funs :
                  /\ lifted[Rank(i, funs)].tag = "Define"
                  /\ lifted[Rank(i, funs)].name = p.bindings[i][1]
                  /\ lifted[Rank(i, funs)].val.tag = "Lambda"
            /\ residual.tag = "Let"
            /\ Len(residual.bindings) = Len(p.bindings) - k
            /\ \A i \in others :
                  /\ residual.bindings[Rank(i, others)][1] = p.bindings[i][1]
                  /\ residual.bindings[Rank(i, others)][2].tag # "Lambda"
            /\ Len(residual.body) = Len(p.body)

\* (let ((g 1) (f (lambda ..))) e1 e2): one Define, then the residual Let
C8_Witness ==
    /\ pc = "inline"
    /\ Len(renamed[1].bindings) = 2
    /\ renamed[1].bindings[1][2].tag # "Lambda"
    /\ renamed[1].bindings[2][2].tag = "Lambda"
    /\ Len(renamed[1].body) = 2
    /\ Len(lifted) = 2
    /\ lifted[1].tag = "Define" /\ lifted[1].name = <<"{let 0}", "f">>
    /\ lifted[2].tag = "Let" /\ BindingNames(lifted[2].bindings) = << <<"{let 0}", "g">> >>
    /\ Len(lifted[2].body) = 2

(***************************************************************************)
(* anf of one item: a call with up to MaxArgs arguments, or another node.  *)
(***************************************************************************)
MaxArgs == 3

AnfArgs ==
    { Literal(Number("7")), IdentExpr("x"),
      Lambda(Closure(<<IdentNew("x")>>, <<>>, <<IdentExpr("x")>>, FALSE)),
      List(<<IdentExpr("+"), Literal(Number("1")), Literal(Number("2"))>>),
      Let(<< <<IdentNew("y"), Literal(Number("1"))>> >>, <<IdentExpr("y")>>),
      Cond(IdentExpr("x"), Literal(Number("1")), None),
      Vector(<<Literal(Number("1"))>>) }

AnfInputsOf(n) ==
    { List(<<IdentExpr("f")>> \o args) : args \in SeqsUpTo(AnfArgs, n) }
        \cup AnfArgs
        \cup { Define(IdentNew("f"),
                      List(<<IdentExpr("f"), List(<<IdentExpr("g"), IdentExpr("x")>>)>>)) }

InitAnf ==
    /\ pc = "anf"
    /\ prog = <<>>
    /\ env = EmptyMap
    /\ base = IdentEmpty
    /\ index = 0
    /\ renamed = <<>>
    /\ lifted = <<>>
    /\ s = StateNew
    /\ \E e \in AnfInputsOf(MaxArgs) : inlined = <<e>>
    /\ normal = <<>>
    /\ out = <<>>

SpecAnf == InitAnf /\ [][Anf]_vars

\* C9: anf returns a List whose arguments are all in normal form unchanged;
\* otherwise a Let binding _i to each compound argument a_i, in increasing i
\* counted from 0 after the head, whose one body expression is the call
\* with _i in place of each compound a_i; any other node is unchanged.
C9_AnfOfList ==
    pc = "tco" =>
        LET e == inlined[1]
            r == normal[1]
            n == Len(e.list) - 1
            compound == { i \in 0..(n - 1) : ~IsAnf(e.list[i + 2]) }
            local(i) == <<"_" \o ToString(i)>>
        IN  IF e.tag # "List" \/ compound = {}
            THEN r = e
            ELSE /\ r.tag = "Let"
                 /\ Len(r.bindings) = Cardinality(compound)
                 /\ \A i \in compound :
                       r.bindings[Rank(i, compound)] = <<local(i), e.list[i + 2]>>
                 /\ Len(r.body) = 1
                 /\ r.body[1].tag = "List"
                 /\ Len(r.body[1].list) = n + 1
                 /\ r.body[1].list[1] = e.list[1]
                 /\ \A i \in 0..(n - 1) :
                       r.body[1].list[i + 2] =
                           IF i \in compound THEN Identifier(local(i)) ELSE e.list[i + 2]

\* (f (+ 1 2) 7 (if x 1)) becomes (let ((_0 (+ 1 2)) (_2 (if x 1))) (f _0 7 _2))
C9_Witness ==
    /\ pc = "tco"
    /\ inlined[1] =
          List(<<IdentExpr("f"),
                 List(<<IdentExpr("+"), Literal(Number("1")), Literal(Number("2"))>>),
                 Literal(Number("7")),
                 Cond(IdentExpr("x"), Literal(Number("1")), None)>>)
    /\ normal[1] =
          Let(<< << <<"_0">>,
                    List(<<IdentExpr("+"), Literal(Number("1")), Literal(Number("2"))>>) >>,
                 << <<"_2">>, Cond(IdentExpr("x"), Literal(Number("1")), None) >> >>,
              <<List(<<IdentExpr("f"), IdentExpr("_0"), Literal(Number("7")),
                       IdentExpr("_2")>>)>>)

(***************************************************************************)
(* tco of one item: a Define or a Let whose lambdas end in an expression   *)
(* nested at most MaxTailDepth deep in Lets and Conds.                     *)
(***************************************************************************)
MaxTailDepth == 2

TailBases ==
    { List(<<IdentExpr("f"), IdentExpr("x")>>),
      List(<<IdentExpr("g"), IdentExpr("x")>>),
      List(<<IdentExpr("+"), Literal(Number("1")), List(<<IdentExpr("f"), IdentExpr("x")>>)>>),
      List(<<List(<<IdentExpr("f")>>), IdentExpr("f")>>),
      IdentExpr("f"),
      Literal(Number("1")) }

TailWrap(t) ==
    { Let(<<>>, <<t>>),
      Let(<< <<IdentNew("y"), Literal(Number("1"))>> >>, <<IdentExpr("y"), t>>),
      Cond(IdentExpr("x"), Literal(Number("1")), Some(t)),
      Cond(IdentExpr("x"), t, None),
      Cond(IdentExpr("x"), t, Some(Literal(Number("1")))) }

RECURSIVE TailExprs(_)
TailExprs(d) ==
    IF d = 0 THEN TailBases
    ELSE LET below == TailExprs(d - 1)
         IN  below \cup {Let(<<>>, <<>>)} \cup UNION { TailWrap(t) : t \in below }

TcoBodies(d) ==
    {<<>>} \cup UNION { { <<t>>, <<Literal(Number("1")), t>>, <<t, Literal(Number("1"))>> } :
                          t \in TailExprs(d) }

TcoClosures(d) ==
    { Closure(<<IdentNew("x")>>, <<>>, body, flag) : body \in TcoBodies(d), flag \in BOOLEAN }

TcoInputsOf(d) ==
    { Define(IdentNew(n), Lambda(c)) : n \in {"f", "g"}, c \in TcoClosures(d) }
        \cup { Let(<< <<IdentNew("f"), Lambda(c)>>,
                      <<IdentNew("v"), List(<<IdentExpr("f"), IdentExpr("x")>>)>>,
                      <<IdentNew("g"), Lambda(c)>> >>,
                   <<List(<<IdentExpr("g"), Literal(Number("1"))>>)>>) : c \in TcoClosures(d) }
        \cup { Define(IdentNew("f"), List(<<IdentExpr("f"), IdentExpr("x")>>)),
               List(<<IdentExpr("f"), IdentExpr("x")>>) }

InitTco ==
    /\ pc = "tco"
    /\ prog = <<>>
    /\ env = EmptyMap
    /\ base = IdentEmpty
    /\ index = 0
    /\ renamed = <<>>
    /\ lifted = <<>>
    /\ s = StateNew
    /\ inlined = <<>>
    /\ \E e \in TcoInputsOf(MaxTailDepth) : normal = <<e>>
    /\ out = <<>>

SpecTco == InitTco /\ [][Tco]_vars

\* The tail position of an expression, as a set with at most one element:
\* that of the last body expression of a Let, that of the alt of a Cond, no
\* expression for an empty Let body or a Cond without alt, else the node
RECURSIVE TailPos(_)
TailPos(e) ==
    CASE e.tag = "Let" -> IF e.body = <<>> THEN {} ELSE TailPos(e.body[Len(e.body)])
      [] e.tag = "Cond" -> IF e.alt = <<>> THEN {} ELSE TailPos(e.alt[1])
      [] OTHER -> {e}

SelfTail(n, body) ==
    /\ body # <<>>
    /\ \E t \in TailPos(body[Len(body)]) :
          t.tag = "List" /\ t.list # <<>> /\ t.list[1] = Identifier(n)

Flagged(n, lambda) ==
    Lambda(Closure(lambda.code.formals, lambda.code.free, lambda.code.body,
                   SelfTail(n, lambda.code.body)))

MaxCalls == 3

InlineInputs ==
    { Literal(Str("a")),
      Literal(Symbol("a")),
      Literal(Number("1")),
      List(<<IdentExpr("f"), Literal(Str("b")), Literal(Str("a")), Literal(Symbol("q"))>>),
      Let(<< <<IdentNew("x"), Literal(Str("b"))>> >>,
          <<Literal(Symbol("q")), Literal(Str("c"))>>),
      Cond(Literal(Str("a")), Literal(Symbol("p")), Some(Literal(Str("b")))),
      Vector(<<Literal(Symbol("p")), Literal(Symbol("a"))>>),
      Define(IdentNew("d"), Literal(Str("hi"))),
      Define(IdentNew("f"),
             Lambda(Closure(<<>>, <<>>, <<Literal(Str("c")), Literal(Str("a"))>>, FALSE))) }

InlineItemsOf(n) == SeqsUpTo(InlineInputs, n) \ {<<>>}

InitInline ==
    /\ pc = "inline"
    /\ prog = <<>>
    /\ env = EmptyMap
    /\ base = IdentEmpty
    /\ index = 0
    /\ renamed = <<>>
    /\ lifted \in InlineItemsOf(MaxCalls)
    /\ s = StateNew
    /\ inlined = <<>>
    /\ normal = <<>>
    /\ out = <<>>

SpecInline == InitInline /\ [][Inline]_vars

\* The literals of one kind that inline visits in a tree, in visiting order
RECURSIVE Visits(_, _)
Visits(kind, e) ==
    LET kids == CASE e.tag = "Define" ->
                        IF e.val.tag = "Lambda" THEN e.val.code.body ELSE <<>>
                  [] e.tag = "Lambda" -> <<>>
                  [] OTHER -> Children(e)
    IN  IF e.tag = "Literal"
        THEN (IF e.lit[1] = kind THEN <<e.lit[2]>> ELSE <<>>)
        ELSE Concat([k \in 1..Len(kids) |-> Visits(kind, kids[k])])

\* The literals visited by the calls made so far
Visited(kind) == Concat([k \in 1..Len(inlined) |-> Visits(kind, lifted[k])])

FirstAt(v, q) == CHOOSE i \in 1..Len(q) : q[i] = v /\ \A j \in 1..(i - 1) : q[j] # v

\* m maps the distinct values of q one-to-one onto 0..k-1 in order of first visit
FirstSeenOrder(m, q) ==
    /\ DOMAIN m = Range(q)
    /\ { m[v] : v \in DOMAIN m } = 0..(Cardinality(DOMAIN m) - 1)
    /\ \A v, w \in DOMAIN m : m[v] = m[w] => v = w
    /\ \A v, w \in DOMAIN m : m[v] < m[w] <=> FirstAt(v, q) < FirstAt(w, q)

Kept(m, n) == \A v \in DOMAIN m : v \in DOMAIN n /\ n[v] = m[v]

\* C5: after any sequence of inline calls on one State each registry maps
\* its k distinct values one-to-one onto 0..k-1 in order of first visit, the
\* two being numbered independently; no call changes or removes an assigned
\* index, and a call that visits only registered values changes nothing.
C5_Registries ==
    /\ [](pc \in {"inline", "anf"} =>
            /\ FirstSeenOrder(s.strings, Visited("Str"))
            /\ FirstSeenOrder(s.symbols, Visited("Symbol")))
    /\ [][ /\ Kept(s.strings, s'.strings)
           /\ Kept(s.symbols, s'.symbols)
           /\ ( /\ pc = "inline"
                /\ Range(Visits("Str", lifted[Len(inlined) + 1])) \subseteq DOMAIN s.strings
                /\ Range(Visits("Symbol", lifted[Len(inlined) + 1])) \subseteq DOMAIN s.symbols )
              => s' = s ]_vars

\* "a", then (f "b" "a" 'q), then 'a: strings a, b and symbols q, a, the
\* string a and the symbol a numbered apart, the second "a" changing nothing
C5_Witness ==
    /\ pc = "anf"
    /\ lifted[1] = Literal(Str("a"))
    /\ Len(inlined) = 3
    /\ s.strings = [v \in {"a", "b"} |-> IF v = "a" THEN 0 ELSE 1]
    /\ s.symbols = [v \in {"q", "a"} |-> IF v = "q" THEN 0 ELSE 1]

\* The literals of one kind that occur anywhere in a tree
RECURSIVE AllLiterals(_, _)
AllLiterals(kind, e) ==
    IF e.tag = "Literal"
    THEN (IF e.lit[1] = kind THEN {e.lit[2]} ELSE {})
    ELSE UNION { AllLiterals(kind, Children(e)[k]) : k \in 1..Len(Children(e)) }

\* C11: after inline(state, e) returns, every string and every symbol literal
\* anywhere in e is a key of its registry, whatever node encloses it (the
\* value of a Define that is not a Lambda too), and the returned tree is e.
C11_EveryLiteralRegistered ==
    \A k \in 1..Len(inlined) :
        /\ AllLiterals("Str", lifted[k]) \subseteq DOMAIN s.strings
        /\ AllLiterals("Symbol", lifted[k]) \subseteq DOMAIN s.symbols
        /\ inlined[k] = lifted[k]

====
